---------------------------- MODULE Spec2Model ----------------------------
(***************************************************************************)
(* State-machine model of libml/utils_vit.py: the parameter-tree           *)
(* flattener (_flatten_dict), the key-set reconciler (inspect_params), the *)
(* unflattener (recover_tree) and the checkpoint adapter (load_pretrained).*)
(*                                                                         *)
(* A Python string is a sequence of symbols: a key segment such as "head"  *)
(* is the one-symbol sequence <<"head">>, the separator is the symbol "/", *)
(* the path "a/norm" is <<"a", "/", "norm">> and the empty string is <<>>. *)
(* A Python dict is a function from such strings to nodes.  A node is a    *)
(* leaf holding a tensor, or a dict.  A tensor has a shape and row-major   *)
(* data; numbers are exact rationals <<numerator, denominator>>.           *)
(***************************************************************************)
EXTENDS Integers, Sequences, FiniteSets, TLC

VARIABLES
    pc,               \* which call the program has made
    t,                \* tree handed to _flatten_dict
    flat,             \* _flatten_dict(t)
    recovered,        \* recover_tree(flat.keys(), flat.values())
    params,           \* restored tree object handed to inspect_params
    expected,         \* expected tree handed to inspect_params
    fail_if_extra,    \* policy flag of inspect_params
    fail_if_missing,  \* policy flag of inspect_params
    params_in,        \* params as it was when inspect_params was first called
    call1,            \* outcome of the first inspect_params call
    call2,            \* outcome of the second inspect_params call
    archive,          \* checkpoint file: flat name -> array
    init_params,      \* expected tree handed to load_pretrained
    model_config,     \* configuration handed to load_pretrained
    lp                \* outcome of load_pretrained

vars == <<pc, t, flat, recovered, params, expected, fail_if_extra,
          fail_if_missing, params_in, call1, call2, archive, init_params,
          model_config, lp>>

---------------------------------------------------------------------------
(* Bounds of the model.                                                    *)

\* Largest number of leaves (tensors or empty sub-trees) of an enumerated tree.
MaxLeaves == 2

\* Largest token count N (restored) and M (expected) of a positional embedding.
MaxTok == 10

\* Largest channel count C of a positional embedding.
MaxChan == 2

\* Largest prompt length and top_k of a prompt_pool configuration.
MaxPrompt == 2

---------------------------------------------------------------------------
(* Values.                                                                 *)

sep == "/"

\* A scalar tensor holding v.
Scalar(v) == [shape |-> <<>>, data |-> << <<v, 1>> >>]

NoTensor == [shape |-> <<>>, data |-> <<>>]

NoKids == [k \in {} |-> 0]

Leaf(x) == [kind |-> "leaf", val |-> x, kids |-> NoKids]

Dict(f) == [kind |-> "dict", val |-> NoTensor, kids |-> f]

\* The Python literal {}.
EmptyDict == Dict(NoKids)

\* isinstance(v, collections.Mapping)
IsMapping(v) == v.kind = "dict"

\* d[k] = v on a dict d.
SetItem(d, k, v) == [x \in (DOMAIN d) \cup {k} |-> IF x = k THEN v ELSE d[x]]

\* d.pop(k) on a dict d.
Pop(d, k) == [x \in (DOMAIN d) \ {k} |-> d[x]]

\* '/' in k
HasSep(k) == \E i \in 1..Len(k) : k[i] = sep

\* k.split('/', 1) of a k that holds '/'
FirstSep(k) == CHOOSE i \in 1..Len(k) : k[i] = sep /\ \A j \in 1..(i - 1) : k[j] # sep

k_left(k) == SubSeq(k, 1, FirstSep(k) - 1)

k_right(k) == SubSeq(k, FirstSep(k) + 1, Len(k))

---------------------------------------------------------------------------
(* _flatten_dict                                                           *)

\* path = parent_key + sep + k if parent_key else k
JoinPath(parent_key, k) ==
    IF parent_key # <<>> THEN parent_key \o <<sep>> \o k ELSE k

\* The (path, value) items _flatten_dict collects for dict d under parent_key.
RECURSIVE FlattenItems(_, _)
FlattenItems(d, parent_key) ==
    LET below == UNION { IF IsMapping(d[k])
                            THEN FlattenItems(d[k].kids, JoinPath(parent_key, k))
                            ELSE { <<JoinPath(parent_key, k), d[k]>> }
                         : k \in DOMAIN d }
        \* Keeps the empty dict if it was set explicitly.
        own == IF parent_key # <<>> /\ DOMAIN d = {}
                  THEN { <<parent_key, EmptyDict>> }
                  ELSE {}
    IN  below \cup own

\* dict(items)
DictOfItems(items) ==
    [k \in { it[1] : it \in items } |-> (CHOOSE it \in items : it[1] = k)[2]]

\* _flatten_dict(d) with parent_key = '' and sep = '/'
FlattenDict(d) == DictOfItems(FlattenItems(d, <<>>))

---------------------------------------------------------------------------
(* recover_tree                                                            *)

\* recover_tree(keys, values), the zipped pairs given as the function kv.
\* Keys without '/' are bound first; the sub-trees are bound after them.
RECURSIVE RecoverTree(_)
RecoverTree(kv) ==
    LET direct == { k \in DOMAIN kv : ~HasSep(k) }
        lefts  == { k_left(k) : k \in (DOMAIN kv) \ direct }
        sub(l) == LET ks == { k \in (DOMAIN kv) \ direct : k_left(k) = l }
                  IN  [r \in { k_right(k) : k \in ks } |->
                          kv[CHOOSE k \in ks : k_right(k) = r]]
    IN  [k \in direct \cup lefts |->
            IF k \in lefts THEN Dict(RecoverTree(sub(k))) ELSE kv[k]]

---------------------------------------------------------------------------
(* inspect_params                                                          *)

\* isinstance(expected_flat[k], dict) and not expected_flat[k]
IsEmptyDict(v) == IsMapping(v) /\ DOMAIN v.kids = {}

\* As AddEmptyKeys, writing the empty dicts into the expected tree.
AddEmptyKeysToExpected(env, empty_keys) ==
    [env EXCEPT !.expected =
        [x \in (DOMAIN env.expected) \cup empty_keys |->
            IF x \in empty_keys THEN EmptyDict ELSE env.expected[x]]]

\* The loop of lines 59-62: params[k] = {} for every recovered key k.
\* env holds the two trees the function was handed.
AddEmptyKeys(env, empty_keys) ==
    [env EXCEPT !.params =
        [x \in (DOMAIN env.params) \cup empty_keys |->
            IF x \in empty_keys THEN EmptyDict ELSE env.params[x]]]

\* missing_keys -= empty_keys
RemainingMissing(missing_keys, empty_keys) == missing_keys \ empty_keys

\* As MustRaise, with the two policy flags taken for one another.
MustRaiseFlagsSwapped(missing_keys, extra_keys, fe, fm) ==
    (missing_keys # {} /\ fe) \/ (extra_keys # {} /\ fm)

\* (missing_keys and fail_if_missing) or (extra_keys and fail_if_extra)
MustRaise(missing_keys, extra_keys, fe, fm) ==
    (missing_keys # {} /\ fm) \/ (extra_keys # {} /\ fe)

\* inspect_params(params=p, expected=e, fail_if_extra=fe, fail_if_missing=fm):
\* the two trees after the call, whether it raised, and the key sets it reports.
InspectParams(p, e, fe, fm) ==
    LET params_flat   == FlattenDict(p)
        expected_flat == FlattenDict(e)
        missing0      == (DOMAIN expected_flat) \ (DOMAIN params_flat)
        extra_keys    == (DOMAIN params_flat) \ (DOMAIN expected_flat)
        empty_keys    == { k \in missing0 : IsEmptyDict(expected_flat[k]) }
        env           == AddEmptyKeys([params |-> p, expected |-> e], empty_keys)
        missing_keys  == RemainingMissing(missing0, empty_keys)
    IN  [params       |-> env.params,
         expected     |-> env.expected,
         raised       |-> MustRaise(missing_keys, extra_keys, fe, fm),
         missing_keys |-> missing_keys,
         extra_keys   |-> extra_keys,
         empty_keys   |-> empty_keys]

---------------------------------------------------------------------------
(* Arrays.                                                                 *)

RECURSIVE GCD(_, _)
GCD(a, b) == IF b = 0 THEN a ELSE GCD(b, a % b)

\* The rational n/d in lowest terms, d > 0.
Rat(n, d) ==
    LET g == GCD(IF n < 0 THEN -n ELSE n, d)
    IN  IF n = 0 THEN <<0, 1>> ELSE <<n \div g, d \div g>>

RatAdd(x, y) == Rat(x[1] * y[2] + y[1] * x[2], x[2] * y[2])

\* The rational x scaled by n/d.
RatScale(x, n, d) == Rat(x[1] * n, x[2] * d)

\* a[:, :n] of an array a of shape [1, N, C]
TokSlice(a, n) ==
    LET k == IF n < a.shape[2] THEN n ELSE a.shape[2]
    IN  [shape |-> <<1, k, a.shape[3]>>,
         data  |-> SubSeq(a.data, 1, k * a.shape[3])]

\* a[0, n:] of an array a of shape [1, N, C]
GridSlice(a, n) ==
    LET k == IF n < a.shape[2] THEN n ELSE a.shape[2]
    IN  [shape |-> <<a.shape[2] - k, a.shape[3]>>,
         data  |-> SubSeq(a.data, k * a.shape[3] + 1, Len(a.data))]

\* jnp.tile(a, [1, reps, 1]) of an array a of shape [1, n, C]
RECURSIVE Tile(_, _)
Tile(a, reps) ==
    IF reps = 0 THEN [shape |-> <<1, 0, a.shape[3]>>, data |-> <<>>]
    ELSE LET rest == Tile(a, reps - 1)
         IN  [shape |-> <<1, a.shape[2] + rest.shape[2], a.shape[3]>>,
              data  |-> a.data \o rest.data]

\* int(np.sqrt(n)) for n >= 0: the largest g with g * g <= n.
ISqrt(n) == CHOOSE g \in 0..n : g * g <= n /\ (g + 1) * (g + 1) > n

\* a.reshape(d1, d2, -1) is possible: the last dimension can be inferred.
CanReshape(a, d1, d2) ==
    d1 * d2 # 0 /\ Len(a.data) % (d1 * d2) = 0

\* a.reshape(d1, d2, -1)
Reshape(a, d1, d2) ==
    [shape |-> <<d1, d2, Len(a.data) \div (d1 * d2)>>, data |-> a.data]

\* Element (i, j, c), counted from 0, of an array a of shape [g, g, C].
At3(a, i, j, c) == a.data[(i * a.shape[2] + j) * a.shape[3] + c + 1]

\* scipy.ndimage.zoom(a, (gs/g, gs/g, 1), order=1) of an array a of shape
\* [g, g, C]: output index i lies at input coordinate i * (g - 1) / (gs - 1),
\* and the value there is interpolated linearly along both grid axes.
Zoom(a, gs) ==
    LET g    == a.shape[1]
        ch   == a.shape[3]
        den  == IF gs > 1 THEN gs - 1 ELSE 1
        num(i) == IF gs > 1 THEN i * (g - 1) ELSE 0
        lo(i)  == num(i) \div den
        fr(i)  == num(i) % den
        wt(i, s) == IF s = 0 THEN den - fr(i) ELSE fr(i)
        term(i, j, c, s, u) ==
            IF wt(i, s) = 0 \/ wt(j, u) = 0 THEN <<0, 1>>
            ELSE RatScale(At3(a, lo(i) + s, lo(j) + u, c),
                          wt(i, s) * wt(j, u), den * den)
        val(i, j, c) ==
            RatAdd(RatAdd(term(i, j, c, 0, 0), term(i, j, c, 0, 1)),
                   RatAdd(term(i, j, c, 1, 0), term(i, j, c, 1, 1)))
    IN  [shape |-> <<gs, gs, ch>>,
         data  |-> [x \in 1..(gs * gs * ch) |->
                       val(((x - 1) \div ch) \div gs,
                           ((x - 1) \div ch) % gs,
                           (x - 1) % ch)]]

\* np.concatenate([a, b], axis=1) is possible for a, b of rank 3.
CanConcat(a, b) == a.shape[1] = b.shape[1] /\ a.shape[3] = b.shape[3]

\* np.concatenate([a, b], axis=1) with a.shape[0] = b.shape[0] = 1
Concat(a, b) ==
    [shape |-> <<1, a.shape[2] + b.shape[2], a.shape[3]>>,
     data  |-> a.data \o b.data]

---------------------------------------------------------------------------
(* load_pretrained                                                         *)

head == <<"head">>

kernel == <<"kernel">>

bias == <<"bias">>

pre_logits == <<"pre_logits">>

prompt == <<"prompt">>

key_ == <<"key">>

shared_prompt == <<"shared_prompt">>

task_specific_prompt == <<"task_specific_prompt">>

prompt_pool == <<"prompt_pool">>

Transformer == <<"Transformer">>

posembed_input == <<"posembed_input">>

pos_embedding == <<"pos_embedding">>

NoError == [type |-> "", line |-> 0]

Raise(env, type, line) == [env EXCEPT !.error = [type |-> type, line |-> line]]

Ok(env) == env.error = NoError

\* d[k] can be read as a dict entry: d is a dict that holds k.
HasItem(d, k) == IsMapping(d) /\ k \in DOMAIN d.kids

\* load(path): the archive's (name, array) pairs put back into a tree.
\* convert_pre_linen leaves a tree of linen names as it is.
Load(ckpt) == RecoverTree(ckpt)

\* Lines 146-149: drop the pre_logits sub-tree for a bare linear head.
DropPreLogits(env, cfg) ==
    IF Ok(env) /\ cfg.representation_size = "None"
               /\ pre_logits \in DOMAIN env.restored_params
       THEN [env EXCEPT !.restored_params = Pop(@, pre_logits)]
       ELSE env

\* restored_params['head'][leaf] = init_params['head'][leaf]  (lines 150, 151)
OverwriteHeadLeaf(env, leaf, line) ==
    IF ~Ok(env) THEN env
    ELSE IF ~(head \in DOMAIN env.init_params
              /\ HasItem(env.init_params[head], leaf))
       THEN Raise(env, "KeyError", line)
    ELSE IF head \notin DOMAIN env.restored_params
       THEN Raise(env, "KeyError", line)
    ELSE IF ~IsMapping(env.restored_params[head])
       THEN Raise(env, "IndexError", line)
    ELSE [env EXCEPT !.restored_params[head] =
             Dict(SetItem(@.kids, leaf, env.init_params[head].kids[leaf]))]

\* Lines 150-151.
OverwriteHead(env) ==
    OverwriteHeadLeaf(OverwriteHeadLeaf(env, kernel, 150), bias, 151)

\* restored_params[key][leaf] = init_params[key][leaf]  (lines 156, 159)
CopyGroupLeaf(env, key, leaf, line) ==
    IF ~Ok(env) THEN env
    ELSE IF ~HasItem(env.init_params[key], leaf)
       THEN Raise(env, "KeyError", line)
    ELSE [env EXCEPT !.restored_params[key] =
             Dict(SetItem(@.kids, leaf, env.init_params[key].kids[leaf]))]

\* model_config['prompt_params']['prompt_pool'].prompt_key is read and true.
\* (line 158; reading it fails when the configuration has no such entry)
WantsKey(cfg) == cfg.prompt_params["prompt_pool"].prompt_key

\* As NeedsGroup, without the test that the restored tree lacks the group.
NeedsGroupWhenExpected(env, key) == key \in DOMAIN env.init_params

\* key in init_params and (key not in restored_params)  (line 154)
NeedsGroup(env, key) ==
    key \in DOMAIN env.init_params /\ key \notin DOMAIN env.restored_params

\* Lines 154-159 for one key of the loop.
AddPromptGroup(env, cfg, key) ==
    IF ~Ok(env) THEN env
    ELSE IF NeedsGroup(env, key)
       THEN LET e1 == [env EXCEPT !.restored_params = SetItem(@, key, EmptyDict)]
                e2 == CopyGroupLeaf(e1, key, prompt, 156)
            IN  IF ~Ok(e2) \/ key # prompt_pool THEN e2
                ELSE IF "prompt_pool" \notin DOMAIN cfg.prompt_params
                   THEN Raise(e2, "KeyError", 158)
                ELSE IF WantsKey(cfg) THEN CopyGroupLeaf(e2, key, key_, 159)
                ELSE e2
       ELSE env

\* Lines 153-159: the loop over the three prompt groups, in order.
AddPromptGroups(env, cfg) ==
    AddPromptGroup(
        AddPromptGroup(AddPromptGroup(env, cfg, shared_prompt),
                       cfg, task_specific_prompt),
        cfg, prompt_pool)

\* Lines 171-178.
TokenLen(cfg) ==
    (IF cfg.use_cls_token THEN 1 ELSE 0)
    + (IF "prompt_pool" \in DOMAIN cfg.prompt_params
          THEN cfg.prompt_params["prompt_pool"].length
               * cfg.prompt_params["prompt_pool"].top_k
          ELSE 0)

\* As SplitAt, splitting after all token_len special tokens.
SplitAtTokenLen(tl) == tl

\* Index at which lines 180 and 184 split posemb into tokens and grid.
SplitAt(tl) == IF tl > 0 THEN 1 ELSE 0

\* Lines 179-184: posemb_tok
PosembTok(posemb, tl) == Tile(TokSlice(posemb, SplitAt(tl)), tl)

\* Lines 179-184: posemb_grid
PosembGrid(posemb, tl) == GridSlice(posemb, SplitAt(tl))

\* gs_new = int(np.sqrt(ntok_new)) of an ntok_new >= 0  (line 188)
GsNew(ntok_new) == ISqrt(ntok_new)

\* Lines 166-196: the resampling of posemb to the shape of posemb_new.
Resample(env, cfg, posemb, posemb_new) ==
    LET token_len == TokenLen(cfg)
        ntok_new  == posemb_new.shape[2] - token_len
        tok       == PosembTok(posemb, token_len)
        grid      == PosembGrid(posemb, token_len)
        gs_old    == ISqrt(grid.shape[1])
        e1 == [env EXCEPT !.resampled = TRUE, !.token_len = token_len,
                          !.posemb_grid = grid, !.gs_old = gs_old]
    IN  IF ntok_new < 0 THEN Raise(e1, "ValueError", 188)
        ELSE LET gs_new == GsNew(ntok_new)
                 e2 == [e1 EXCEPT !.gs_new = gs_new]
             IN  IF ~CanReshape(grid, gs_old, gs_old)
                    THEN Raise(e2, "ValueError", 190)
                 ELSE LET zoomed == Zoom(Reshape(grid, gs_old, gs_old), gs_new)
                      IN  IF ~CanReshape(zoomed, 1, gs_new * gs_new)
                             THEN Raise(e2, "ValueError", 194)
                          ELSE LET g2 == Reshape(zoomed, 1, gs_new * gs_new)
                               IN  IF ~CanConcat(tok, g2)
                                      THEN Raise(e2, "ValueError", 195)
                                   ELSE [e2 EXCEPT
                                     !.restored_params[Transformer]
                                        .kids[posembed_input]
                                        .kids[pos_embedding] =
                                            Leaf(Concat(tok, g2))]

\* As ShapesDiffer, with the comparison the wrong way round.
ShapesEqual(posemb, posemb_new) == posemb.shape = posemb_new.shape

\* posemb.shape != posemb_new.shape  (line 165)
ShapesDiffer(posemb, posemb_new) == posemb.shape # posemb_new.shape

\* Lines 161-196.
ResamplePosemb(env, cfg) ==
    IF ~Ok(env) THEN env
    ELSE IF ~(Transformer \in DOMAIN env.restored_params
              /\ HasItem(env.restored_params[Transformer], posembed_input))
       THEN env
    ELSE IF ~HasItem(env.restored_params[Transformer].kids[posembed_input],
                     pos_embedding)
       THEN Raise(env, "KeyError", 163)
    ELSE IF ~(Transformer \in DOMAIN env.init_params
              /\ HasItem(env.init_params[Transformer], posembed_input)
              /\ HasItem(env.init_params[Transformer].kids[posembed_input],
                         pos_embedding))
       THEN Raise(env, "KeyError", 164)
    ELSE LET posemb == env.restored_params[Transformer].kids[posembed_input]
                          .kids[pos_embedding].val
             posemb_new == env.init_params[Transformer].kids[posembed_input]
                              .kids[pos_embedding].val
         IN  IF ShapesDiffer(posemb, posemb_new)
                THEN Resample(env, cfg, posemb, posemb_new)
                ELSE env

\* The trees and locals of a load_pretrained call as it starts: the restored
\* tree is what inspect_params returns with both flags false (lines 135-139).
StartLoad(ckpt, init, cfg) ==
    LET loaded == Load(ckpt)
        r == InspectParams(loaded, init, FALSE, FALSE)
    IN  [restored_params |-> r.params,
         init_params     |-> r.expected,
         error           |-> IF r.raised THEN [type |-> "ValueError", line |-> 73]
                                         ELSE NoError,
         loaded          |-> loaded,
         resampled       |-> FALSE,
         token_len       |-> 0,
         gs_old          |-> 0,
         gs_new          |-> 0,
         posemb_grid     |-> NoTensor]

\* load_pretrained(pretrained_path, init_params, model_config)
LoadPretrained(ckpt, init, cfg) ==
    ResamplePosemb(
        AddPromptGroups(
            OverwriteHead(DropPreLogits(StartLoad(ckpt, init, cfg), cfg)),
            cfg),
        cfg)

---------------------------------------------------------------------------
(* Input trees.                                                            *)

TopKeys == { <<"a">>, <<>> }

MidKeys == { <<"w">>, <<"norm">> }

\* Every dict with keys among keys and values among nodes.
DictsOver(keys, nodes) == UNION { [S -> nodes] : S \in SUBSET keys }

\* A tensor holding one of vals, or an explicitly empty sub-tree.
LeafNodes(vals) == { Leaf(Scalar(v)) : v \in vals } \cup { EmptyDict }

\* Number of leaves (tensors and empty sub-trees) of dict d.
RECURSIVE LeafCount(_)
LeafCount(d) ==
    IF DOMAIN d = {} THEN 0
    ELSE LET k == CHOOSE x \in DOMAIN d : TRUE
             here == IF IsMapping(d[k]) /\ DOMAIN d[k].kids # {}
                        THEN LeafCount(d[k].kids) ELSE 1
         IN  here + LeafCount(Pop(d, k))

\* The leaves of dict d, each as the sequence of keys leading to it.
RECURSIVE LeafPaths(_)
LeafPaths(d) ==
    UNION { IF IsMapping(d[k]) /\ DOMAIN d[k].kids # {}
               THEN { <<k>> \o p : p \in LeafPaths(d[k].kids) }
               ELSE { <<k>> }
            : k \in DOMAIN d }

\* The flat key _flatten_dict forms for the key sequence p.
RECURSIVE JoinAll(_)
JoinAll(p) ==
    IF Len(p) = 1 THEN p[1]
    ELSE JoinPath(JoinAll(SubSeq(p, 1, Len(p) - 1)), p[Len(p)])

\* No two leaves of d are given the same flat key.
NoCollision(d) ==
    \A p, q \in LeafPaths(d) : p # q => JoinAll(p) # JoinAll(q)

\* Dicts of nesting depth at most 1, 2 and 3 with at most MaxLeaves leaves.
Depth1(keys, vals) == DictsOver(keys, LeafNodes(vals))

Depth2(top, vals) ==
    { d \in DictsOver(top, LeafNodes(vals) \cup
                           { Dict(f) : f \in Depth1(MidKeys, vals) }) :
        LeafCount(d) <= MaxLeaves }

Depth3(vals) ==
    { d \in DictsOver(TopKeys, LeafNodes(vals) \cup
                               { Dict(f) : f \in Depth2(MidKeys, vals) }) :
        LeafCount(d) <= MaxLeaves }

\* Trees handed to _flatten_dict.
RoundTripTrees == { d \in Depth3({1, 2}) : NoCollision(d) }

\* Restored and expected trees handed to inspect_params.
RestoredTrees == { d \in Depth2(TopKeys, {1}) : NoCollision(d) }

ExpectedTrees == { d \in Depth2(TopKeys, {2}) : NoCollision(d) }

---------------------------------------------------------------------------
(* Inputs of load_pretrained.                                              *)

Groups == { shared_prompt, task_specific_prompt, prompt_pool }

\* The flat name a/b of the archive.
Name2(a, b) == a \o <<sep>> \o b

Name3(a, b, c) == a \o <<sep>> \o b \o <<sep>> \o c

\* An array of shape [1, n, c] whose entries differ from one another.
PosTensor(n, c, base) ==
    [shape |-> <<1, n, c>>,
     data  |-> [i \in 1..(n * c) |-> <<base + i * i, 1>>]]

NoPool == [present |-> FALSE, length |-> 0, top_k |-> 0, prompt_key |-> FALSE]

\* Checkpoints and models that differ in the head and in pre_logits, with
\* the positional embedding absent, equal in shape, or different in shape.
HeadInputs ==
    [head : {"none", "dict", "other", "tensor"},
     pre  : BOOLEAN,
     rep  : {"None", "768"},
     rg   : { {} },
     eg   : { {} },
     pool : { NoPool },
     cls  : {TRUE},
     pos  : { [r |-> FALSE, e |-> TRUE, n |-> 5, m |-> 5, c |-> 1],
              [r |-> TRUE, e |-> FALSE, n |-> 5, m |-> 5, c |-> 1],
              [r |-> TRUE, e |-> TRUE, n |-> 5, m |-> 5, c |-> 1],
              [r |-> TRUE, e |-> TRUE, n |-> 5, m |-> 10, c |-> 1] }]

\* Checkpoints and models that differ in the prompt groups they hold.
GroupInputs ==
    [head : {"none", "dict"},
     pre  : {FALSE},
     rep  : {"None"},
     rg   : SUBSET Groups,
     eg   : SUBSET Groups,
     pool : { NoPool } \cup
            { [present |-> TRUE, length |-> 1, top_k |-> 1, prompt_key |-> b]
              : b \in BOOLEAN },
     cls  : {TRUE},
     pos  : { [r |-> TRUE, e |-> TRUE, n |-> 5, m |-> 5, c |-> 1] }]

\* Checkpoints and models that differ in the positional embedding: N tokens
\* restored, M expected, C channels, and the special tokens of the model.
EmbeddingInputs ==
    { x \in [head : {"dict"},
             pre  : {FALSE},
             rep  : {"None"},
             rg   : { {} },
             eg   : { {}, { prompt_pool } },
             pool : { NoPool } \cup
                    { [present |-> TRUE, length |-> l, top_k |-> k,
                       prompt_key |-> TRUE]
                      : l \in 1..MaxPrompt, k \in 1..MaxPrompt },
             cls  : BOOLEAN,
             pos  : [r : {TRUE}, e : {TRUE}, n : 1..MaxTok, m : 1..MaxTok,
                     c : 1..MaxChan]] :
        (x.eg = { prompt_pool }) = x.pool.present }

\* Position of group g, to tell the groups' tensors apart.
GroupNo(g) ==
    IF g = shared_prompt THEN 1 ELSE IF g = task_specific_prompt THEN 2 ELSE 3

\* The checkpoint file of input x.
ArchiveOf(x) ==
    DictOfItems(
        (IF x.head = "dict"
            THEN { <<Name2(head, kernel), Leaf(Scalar(11))>>,
                   <<Name2(head, bias), Leaf(Scalar(12))>> }
         ELSE IF x.head = "other"
            THEN { <<Name2(head, <<"scale">>), Leaf(Scalar(13))>> }
         ELSE IF x.head = "tensor"
            THEN { <<head, Leaf(Scalar(14))>> }
         ELSE {})
        \cup (IF x.pre THEN { <<Name2(pre_logits, kernel), Leaf(Scalar(15))>> }
                       ELSE {})
        \cup { <<Name2(g, prompt), Leaf(Scalar(30 + GroupNo(g)))>> : g \in x.rg }
        \cup { <<Name3(Transformer, <<"encoder_norm">>, <<"scale">>),
                 Leaf(Scalar(16))>> }
        \cup (IF x.pos.r
                 THEN { <<Name3(Transformer, posembed_input, pos_embedding),
                          Leaf(PosTensor(x.pos.n, x.pos.c, 100))>> }
                 ELSE {}))

\* One prompt group of a freshly initialised model.
FreshGroup(x, g) ==
    Dict(IF g = prompt_pool /\ x.pool.present /\ x.pool.prompt_key
            THEN [k \in {prompt, key_} |->
                     Leaf(Scalar(IF k = prompt THEN 43 ELSE 44))]
            ELSE [k \in {prompt} |-> Leaf(Scalar(40 + GroupNo(g)))])

\* The freshly initialised tree of input x.
InitParamsOf(x) ==
    LET top == {head, Transformer} \cup x.eg
               \cup (IF x.rep = "None" THEN {} ELSE {pre_logits})
        tr == IF x.pos.e
                 THEN [k \in {<<"encoder_norm">>, posembed_input} |->
                          IF k = posembed_input
                             THEN Dict([j \in {pos_embedding} |->
                                     Leaf(PosTensor(x.pos.m, x.pos.c, 200))])
                             ELSE Dict([j \in {<<"scale">>} |-> Leaf(Scalar(26))])]
                 ELSE [k \in {<<"encoder_norm">>} |->
                          Dict([j \in {<<"scale">>} |-> Leaf(Scalar(26))])]
    IN  [k \in top |->
            IF k = head
               THEN Dict([j \in {kernel, bias} |->
                            Leaf(Scalar(IF j = kernel THEN 21 ELSE 22))])
            ELSE IF k = Transformer THEN Dict(tr)
            ELSE IF k = pre_logits
               THEN Dict([j \in {kernel} |-> Leaf(Scalar(25))])
            ELSE FreshGroup(x, k)]

\* The configuration of input x.
ConfigOf(x) ==
    [representation_size |-> x.rep,
     use_cls_token       |-> x.cls,
     prompt_params       |->
        IF x.pool.present
           THEN [k \in {"prompt_pool"} |->
                    [length |-> x.pool.length, top_k |-> x.pool.top_k,
                     prompt_key |-> x.pool.prompt_key]]
           ELSE NoKids]

---------------------------------------------------------------------------
(* State machine.                                                          *)

NoCall == [called |-> FALSE, raised |-> FALSE, ret |-> NoKids,
           missing_keys |-> {}, extra_keys |-> {}, empty_keys |-> {}]

NoConfig == [representation_size |-> "None", use_cls_token |-> FALSE,
             prompt_params |-> NoKids]

NoLoad == [called |-> FALSE, returned |-> FALSE, error |-> NoError,
           result |-> NoKids, loaded |-> NoKids, resampled |-> FALSE,
           token_len |-> 0, gs_old |-> 0, gs_new |-> 0,
           posemb_grid |-> NoTensor]

TreeIdle == t = NoKids /\ flat = NoKids /\ recovered = NoKids

InspectIdle ==
    /\ params = NoKids /\ expected = NoKids /\ params_in = NoKids
    /\ fail_if_extra = FALSE /\ fail_if_missing = FALSE
    /\ call1 = NoCall /\ call2 = NoCall

LoadIdle ==
    archive = NoKids /\ init_params = NoKids /\ model_config = NoConfig /\ lp = NoLoad

InitTree ==
    /\ pc = "tree"
    /\ t \in RoundTripTrees
    /\ flat = NoKids /\ recovered = NoKids
    /\ InspectIdle /\ LoadIdle

InitInspect ==
    /\ pc = "inspect"
    /\ params \in RestoredTrees
    /\ expected \in ExpectedTrees
    /\ params_in = params
    /\ fail_if_extra \in BOOLEAN
    /\ fail_if_missing \in BOOLEAN
    /\ call1 = NoCall /\ call2 = NoCall
    /\ TreeIdle /\ LoadIdle

\* flat = _flatten_dict(t)
CallFlattenDict ==
    /\ pc = "tree"
    /\ flat' = FlattenDict(t)
    /\ pc' = "flat"
    /\ UNCHANGED <<t, recovered, params, expected, fail_if_extra,
                   fail_if_missing, params_in, call1, call2, archive,
                   init_params, model_config, lp>>

\* recovered = recover_tree(flat.keys(), flat.values())
CallRecoverTree ==
    /\ pc = "flat"
    /\ recovered' = RecoverTree(flat)
    /\ pc' = "recovered"
    /\ UNCHANGED <<t, flat, params, expected, fail_if_extra, fail_if_missing,
                   params_in, call1, call2, archive, init_params,
                   model_config, lp>>

\* What the caller of inspect_params observes.
Outcome(r) ==
    [called       |-> TRUE,
     raised       |-> r.raised,
     ret          |-> IF r.raised THEN NoKids ELSE r.params,
     missing_keys |-> r.missing_keys,
     extra_keys   |-> r.extra_keys,
     empty_keys   |-> r.empty_keys]

\* inspect_params(params=params, expected=expected, ...), a first and then a
\* second time on the same objects.
CallInspectParams ==
    /\ pc \in {"inspect", "called1"}
    /\ LET r == InspectParams(params, expected, fail_if_extra, fail_if_missing)
       IN  /\ params' = r.params
           /\ expected' = r.expected
           /\ IF pc = "inspect"
                 THEN call1' = Outcome(r) /\ call2' = call2 /\ pc' = "called1"
                 ELSE call2' = Outcome(r) /\ call1' = call1 /\ pc' = "called2"
    /\ UNCHANGED <<t, flat, recovered, fail_if_extra, fail_if_missing,
                   params_in, archive, init_params, model_config, lp>>

InitLoad ==
    /\ pc = "load"
    /\ \E x \in HeadInputs \cup GroupInputs \cup EmbeddingInputs :
          /\ archive = ArchiveOf(x)
          /\ init_params = InitParamsOf(x)
          /\ model_config = ConfigOf(x)
    /\ lp = NoLoad
    /\ TreeIdle /\ InspectIdle

\* lp = load_pretrained(archive, init_params, model_config)
CallLoadPretrained ==
    /\ pc = "load"
    /\ LET env == LoadPretrained(archive, init_params, model_config)
       IN  /\ init_params' = env.init_params
           /\ lp' = [called      |-> TRUE,
                     returned    |-> Ok(env),
                     error       |-> env.error,
                     result      |-> IF Ok(env) THEN env.restored_params
                                                ELSE NoKids,
                     loaded      |-> env.loaded,
                     resampled   |-> env.resampled,
                     token_len   |-> env.token_len,
                     gs_old      |-> env.gs_old,
                     gs_new      |-> env.gs_new,
                     posemb_grid |-> env.posemb_grid]
    /\ pc' = "done"
    /\ UNCHANGED <<t, flat, recovered, params, expected, fail_if_extra,
                   fail_if_missing, params_in, call1, call2, archive,
                   model_config>>

TreeNext == CallFlattenDict \/ CallRecoverTree

InspectNext == CallInspectParams

LoadNext == CallLoadPretrained

Init == InitTree \/ InitInspect \/ InitLoad

Next == TreeNext \/ InspectNext \/ LoadNext

\* _flatten_dict and recover_tree on every input tree.
SpecTree == InitTree /\ [][TreeNext]_vars

\* inspect_params, called twice, on every pair of trees and flags.
SpecInspect == InitInspect /\ [][InspectNext]_vars

\* load_pretrained on every checkpoint, model and configuration.
SpecLoad == InitLoad /\ [][LoadNext]_vars

\* All of the above.
Spec == Init /\ [][Next]_vars

---------------------------------------------------------------------------
(* Properties.                                                             *)

\* The keys, one per nesting level, that the flat key k names.
RECURSIVE Segments(_)
Segments(k) ==
    IF HasSep(k) THEN <<k_left(k)>> \o Segments(k_right(k)) ELSE <<k>>

\* Dict d holds an empty sub-tree at the nested path p.
RECURSIVE HasEmptyAt(_, _)
HasEmptyAt(d, p) ==
    /\ p[1] \in DOMAIN d
    /\ IF Len(p) = 1 THEN IsEmptyDict(d[p[1]])
       ELSE IsMapping(d[p[1]]) /\ HasEmptyAt(d[p[1]].kids, Tail(p))

\* Dict d holds Transformer/posembed_input/pos_embedding.
HasPos(d) ==
    /\ Transformer \in DOMAIN d
    /\ HasItem(d[Transformer], posembed_input)
    /\ HasItem(d[Transformer].kids[posembed_input], pos_embedding)

\* The array at Transformer/posembed_input/pos_embedding of dict d.
PosOf(d) == d[Transformer].kids[posembed_input].kids[pos_embedding].val

\* Dict d holds a Transformer/posembed_input entry.
HasPosEntry(d) ==
    Transformer \in DOMAIN d /\ HasItem(d[Transformer], posembed_input)

\* Slot i, counted from 0, of an array a of shape [1, N, C].
Slot(a, i) == SubSeq(a.data, i * a.shape[3] + 1, (i + 1) * a.shape[3])

IsSquare(n) == n >= 0 /\ ISqrt(n) * ISqrt(n) = n

\* C1: load_pretrained never fails on the restored head, and the tree it
\* returns has the head kernel and bias of init_params, whatever the restored
\* checkpoint holds under 'head' (nothing, other values, or a head).
C1_HeadAlwaysFresh ==
    pc = "done" =>
        /\ lp.error.line \notin {150, 151}
        /\ lp.returned =>
              /\ HasItem(lp.result[head], kernel)
              /\ HasItem(lp.result[head], bias)
              /\ lp.result[head].kids[kernel] = init_params[head].kids[kernel]
              /\ lp.result[head].kids[bias] = init_params[head].kids[bias]

\* C2: when resampling is triggered (restored shape [1, N, C], expected shape
\* [1, M, C], N # M) and load_pretrained returns, the embedding written back
\* has exactly the expected shape; and when M - token_len or the restored
\* grid count is not a perfect square, the load fails.
C2_ResampledShape ==
    (pc = "done" /\ lp.resampled) =>
        /\ lp.returned => PosOf(lp.result).shape = PosOf(init_params).shape
        /\ (~IsSquare(PosOf(init_params).shape[2] - lp.token_len)
            \/ ~IsSquare(lp.posemb_grid.shape[1])) => ~lp.returned

\* C3: every flat key that is expected, not restored, and whose expected
\* value is an empty sub-tree is injected by inspect_params as an empty
\* sub-tree at the nested path it names and is not counted as missing; with
\* expected = {a: {norm: {}}}, restored = {} and fail_if_missing the call
\* returns exactly {a: {norm: {}}}.
C3_InjectsNested ==
    pc = "called1" =>
        LET pf == FlattenDict(params_in)
            ef == FlattenDict(expected)
        IN  /\ \A k \in (DOMAIN ef) \ (DOMAIN pf) :
                  IsEmptyDict(ef[k]) =>
                      HasEmptyAt(params, Segments(k)) /\ k \notin call1.missing_keys
            /\ ( /\ params_in = NoKids
                 /\ expected = [k \in {<<"a">>} |->
                                  Dict([j \in {<<"norm">>} |-> EmptyDict])]
                 /\ fail_if_missing /\ ~fail_if_extra )
               => (~call1.raised /\ call1.ret = expected)

\* C4: inspect_params raises exactly when fail_if_missing holds and some
\* expected flat key with a non-empty expected value is not restored, or
\* fail_if_extra holds and some restored flat key is not expected; the
\* missing set it reports is exactly those keys; with both flags false it
\* does not raise and returns the restored tree.
C4_RaisesIffPolicyViolated ==
    call1.called =>
        LET pf == FlattenDict(params_in)
            ef == FlattenDict(expected)
            missing == { k \in DOMAIN ef : k \notin DOMAIN pf /\ ~IsEmptyDict(ef[k]) }
            extra == { k \in DOMAIN pf : k \notin DOMAIN ef }
        IN  /\ call1.raised <=> ( (fail_if_missing /\ missing # {})
                                  \/ (fail_if_extra /\ extra # {}) )
            /\ call1.missing_keys = missing
            /\ (pc = "called1" /\ ~fail_if_missing /\ ~fail_if_extra)
                  => (~call1.raised /\ call1.ret = params)

\* C4 witness: expected = {a: {w: tensor}}, restored = {}, fail_if_missing:
\* the call raised and reported missing = {a/w}.
C4_Witness ==
    /\ pc = "called1" /\ call1.raised /\ fail_if_missing /\ ~fail_if_extra
    /\ params_in = NoKids
    /\ expected = [k \in {<<"a">>} |->
                      Dict([j \in {<<"w">>} |-> Leaf(Scalar(2))])]
    /\ call1.missing_keys = { <<"a", "/", "w">> }

\* C5: recover_tree applied to the keys and values of _flatten_dict(t)
\* returns a tree equal to t, for every tree t whose flat keys do not collide.
C5_RoundTrip == pc = "recovered" => recovered = t

\* The round trip does hold for every tree without an empty key at the top.
RoundTripOfNamedKeys ==
    (pc = "recovered" /\ <<>> \notin DOMAIN t) => recovered = t

\* C6: when the restored positional embedding has the shape of the expected
\* one, or the restored tree has no Transformer/posembed_input entry,
\* load_pretrained does not resample, and the positional embedding of the
\* tree it returns is the restored one (there if and only if it was restored).
C6_NoResampleWhenSameShape ==
    ( /\ pc = "done"
      /\ \/ ~HasPosEntry(lp.loaded)
         \/ /\ HasPos(lp.loaded) /\ HasPos(init_params)
            /\ PosOf(lp.loaded).shape = PosOf(init_params).shape )
    => /\ ~lp.resampled
       /\ lp.returned =>
             /\ HasPos(lp.result) <=> HasPos(lp.loaded)
             /\ HasPos(lp.loaded) => PosOf(lp.result) = PosOf(lp.loaded)

\* C6 witness: a load returned a tree whose restored embedding already had
\* the expected shape.
C6_Witness ==
    /\ pc = "done" /\ lp.returned
    /\ HasPos(lp.loaded) /\ HasPos(init_params)
    /\ PosOf(lp.loaded).shape = PosOf(init_params).shape
    /\ PosOf(lp.result) = PosOf(lp.loaded)

\* C7: for each prompt group g, when load_pretrained returns: g in both trees
\* is returned as restored; g expected but not restored holds 'prompt' of the
\* expected tree, and holds 'key' (of the expected tree) exactly when g is
\* prompt_pool and the configured prompt_key is true; g not expected is not
\* added.
C7_PromptGroups ==
    (pc = "done" /\ lp.returned) =>
        \A g \in Groups :
            /\ (g \in DOMAIN init_params /\ g \in DOMAIN lp.loaded)
                  => (g \in DOMAIN lp.result /\ lp.result[g] = lp.loaded[g])
            /\ (g \in DOMAIN init_params /\ g \notin DOMAIN lp.loaded)
                  => /\ g \in DOMAIN lp.result
                     /\ HasItem(lp.result[g], prompt)
                     /\ lp.result[g].kids[prompt] = init_params[g].kids[prompt]
                     /\ HasItem(lp.result[g], key_)
                           <=> ( /\ g = prompt_pool
                                 /\ "prompt_pool" \in DOMAIN model_config.prompt_params
                                 /\ model_config.prompt_params["prompt_pool"].prompt_key )
                     /\ HasItem(lp.result[g], key_)
                           => lp.result[g].kids[key_] = init_params[g].kids[key_]
            /\ (g \notin DOMAIN init_params)
                  => (g \in DOMAIN lp.result <=> g \in DOMAIN lp.loaded)

\* C7 witness: a load returned with prompt_pool freshly added with its key,
\* shared_prompt kept as restored, and task_specific_prompt in neither tree.
C7_Witness ==
    /\ pc = "done" /\ lp.returned
    /\ prompt_pool \in DOMAIN init_params /\ prompt_pool \notin DOMAIN lp.loaded
    /\ HasItem(lp.result[prompt_pool], key_)
    /\ shared_prompt \in DOMAIN init_params /\ shared_prompt \in DOMAIN lp.loaded
    /\ task_specific_prompt \notin DOMAIN init_params
    /\ task_specific_prompt \notin DOMAIN lp.result

\* C8: no step of load_pretrained or inspect_params changes the caller's
\* expected tree.
C8_ExpectedTreeUnchanged ==
    [][init_params' = init_params /\ expected' = expected]_vars

\* C8 witness: both functions have changed a restored tree: inspect_params
\* added an empty key, or load_pretrained resampled and added a prompt group.
C8_Witness ==
    \/ pc = "called1" /\ call1.empty_keys # {} /\ params # params_in
    \/ /\ pc = "done" /\ lp.returned /\ lp.resampled
       /\ prompt_pool \in DOMAIN lp.result /\ prompt_pool \notin DOMAIN lp.loaded

\* C9: a second inspect_params call on the same objects and flags raises if
\* and only if the first did and, when it returns, returns an equal tree.
C9_Idempotent ==
    pc = "called2" =>
        /\ call2.raised = call1.raised
        /\ ~call2.raised => call2.ret = call1.ret

\* The restored token count less n, not below 0.
TokensPast(n) ==
    IF PosOf(lp.loaded).shape[2] > n THEN PosOf(lp.loaded).shape[2] - n ELSE 0

\* C10: when resampling is triggered with token_len > 0 the restored
\* embedding is split at index token_len: the grid fed to the interpolation
\* is the restored slots from token_len onward, its side the integer square
\* root of N - token_len, and the first token_len slots of the result are
\* copies of restored slot 0; with token_len = 0 all N slots form the grid.
\* (Stated of the loads that return.)
C10_SplitAtTokenLen ==
    (pc = "done" /\ lp.resampled /\ lp.returned) =>
        /\ lp.posemb_grid = GridSlice(PosOf(lp.loaded), lp.token_len)
        /\ lp.gs_old = ISqrt(TokensPast(lp.token_len))
        /\ \A i \in 0..(lp.token_len - 1) :
              Slot(PosOf(lp.result), i) = Slot(PosOf(lp.loaded), 0)

\* C10 amended: the split is at index 1 whenever token_len > 0: the grid is
\* the restored slots from 1 onward, its side the integer square root of
\* N - 1, restored slot 0 is not part of it, and the first token_len slots of
\* the result are copies of restored slot 0; with token_len = 0 all N slots
\* form the grid and the result has no prefix.
C10_SplitAtOne ==
    (pc = "done" /\ lp.resampled) =>
        LET cut == IF lp.token_len > 0 THEN 1 ELSE 0
        IN  /\ lp.posemb_grid = GridSlice(PosOf(lp.loaded), cut)
            /\ lp.posemb_grid.shape[1] = PosOf(lp.loaded).shape[2] - cut
            /\ lp.gs_old = ISqrt(TokensPast(cut))
            /\ lp.returned =>
                  /\ \A i \in 0..(lp.token_len - 1) :
                        Slot(PosOf(lp.result), i) = Slot(PosOf(lp.loaded), 0)
                  /\ PosOf(lp.result).shape[2]
                        = lp.token_len + lp.gs_new * lp.gs_new

\* C10 witness: a resampling with two or more special tokens returned.
C10_Witness ==
    pc = "done" /\ lp.resampled /\ lp.returned /\ lp.token_len >= 2

=============================================================================
